---- MODULE Spec2Model ----
(***************************************************************************)
(* State-machine model of the Flask e-commerce API in src/app.py: the     *)
(* users and products tables of the SQLite store, the marshmallow schemas  *)
(* that validate request bodies, and one action per HTTP route.            *)
(*                                                                         *)
(* Strings are sequences of one-character strings, so that lengths, case   *)
(* and the position of "@" and "." are what the validators look at.        *)
(* Prices are integers counting thousandths (0.01 is 10).                  *)
(* A JSON body is a record with one entry per key; the entry is the empty  *)
(* set when the key is absent and {v} when the key is present with value v.*)
(***************************************************************************)
EXTENDS Integers, Sequences, FiniteSets, TLC

VARIABLES users, products, req, resp, pre, issued

vars == <<users, products, req, resp, pre, issued>>

\* ------------------------------------------------------------ bounds

\* Row ids that requests address and that the persisted tables may hold.
MaxId == 2

\* ------------------------------------------------- program constants

LengthMin == 1
NameMax == 80
AddressMax == 255
ProductNameMax == 120
\* validate.Range(min=0.01), in thousandths
PriceMin == 10

\* ------------------------------------------------------------ strings

Rep(c, n) == [i \in 1..n |-> c]

sAnn == <<"a", "n">>
sANN == <<"A", "n">>
sX == <<"x">>
sY == <<"y">>
sP == <<"p">>
sQ == <<"q">>
eAnn == <<"a", "@", "b", ".", "c", "c">>
eANN == <<"A", "@", "b", ".", "c", "c">>
eNoAt == <<"a", "b", ".", "c", "c">>
eNoTld == <<"a", "@", "b">>

Letters == {"a", "b", "c", "n", "x", "y", "p", "q", "A"}

\* ------------------------------------------------- marshmallow validators

\* validate.Length(min, max)
Length(min, max, value) == min <= Len(value) /\ Len(value) <= max

\* Dot-separated non-empty runs of word characters (the unquoted branch of
\* validate.Email.USER_REGEX, and the label structure of DOMAIN_REGEX).
DotAtoms(s) ==
    /\ Len(s) >= 1
    /\ s[1] # "."
    /\ s[Len(s)] # "."
    /\ \A i \in 1..Len(s) : s[i] \in Letters \/ s[i] = "."
    /\ \A i \in 1..(Len(s) - 1) : ~(s[i] = "." /\ s[i + 1] = ".")

\* fields.String in place of fields.Email: no format check.
Email_unchecked(value) == TRUE

\* validate.Email.__call__: "@" must occur, the value is split at the last
\* "@", the user part must match USER_REGEX and the domain part DOMAIN_REGEX
\* (labels separated by dots, ending in a top-level label of >= 2 characters).
Email(value) ==
    LET ats == {i \in 1..Len(value) : value[i] = "@"} IN
    /\ ats # {}
    /\ LET at == CHOOSE i \in ats : \A j \in ats : j <= i
           user_part == SubSeq(value, 1, at - 1)
           domain_part == SubSeq(value, at + 1, Len(value))
           dots == {i \in 1..Len(domain_part) : domain_part[i] = "."}
       IN /\ DotAtoms(user_part)
          /\ DotAtoms(domain_part)
          /\ dots # {}
          /\ \E i \in dots : /\ \A j \in dots : j <= i
                             /\ Len(domain_part) - i >= 2

\* validate.Range(min=0.01)
Range(min, value) == value >= min

\* ------------------------------------------------------------ schemas

\* Meta.load_instance of UserSchema and ProductSchema. Both set it, and every
\* handler that loads a body then uses the loaded value as a dict: the
\* handlers below therefore end in TypeError (a 500) for every body that
\* passes validation, before they touch the session.
load_instance == TRUE

\* marshmallow_sqlalchemy's post_load hook: with load_instance set, load()
\* hands back a model instance built from the validated fields; without it,
\* the dict of validated fields.
make_instance(data) ==
    [kind |-> IF load_instance THEN "instance" ELSE "dict", data |-> data]

\* user_data['name'] and 'name' in user_data are defined on a dict; a mapped
\* class defines neither __getitem__ nor __contains__/__iter__, so both
\* raise TypeError on an instance.
TypeError(obj) == obj.kind # "dict"

Present(json, key) == json[key] # {}

Item(json, key) == CHOOSE v \in json[key] : TRUE

\* Fields a schema rejects: a required key missing (unless partial), a value
\* failing its validator, a key the schema does not declare (unknown=RAISE).
UserSchema_errors(json, partial) ==
    {k \in {"name", "address", "email"} : ~partial /\ ~Present(json, k)}
    \cup {k \in {"name"} :
            Present(json, k) /\ ~Length(LengthMin, NameMax, Item(json, k))}
    \cup {k \in {"address"} :
            Present(json, k) /\ ~Length(LengthMin, AddressMax, Item(json, k))}
    \cup {k \in {"email"} : Present(json, k) /\ ~Email(Item(json, k))}
    \cup {k \in {"role"} : Present(json, k)}

ProductSchema_errors(json, partial) ==
    {k \in {"name", "price"} : ~partial /\ ~Present(json, k)}
    \cup {k \in {"name"} :
            Present(json, k) /\ ~Length(LengthMin, ProductNameMax, Item(json, k))}
    \cup {k \in {"price"} : Present(json, k) /\ ~Range(PriceMin, Item(json, k))}
    \cup {k \in {"role"} : Present(json, k)}

\* schema.load(request.json, partial=...): ValidationError carrying the
\* field -> messages map, or the loaded value.
UserSchema_load(json, partial) ==
    [errors |-> UserSchema_errors(json, partial), value |-> make_instance(json)]

ProductSchema_load(json, partial) ==
    [errors |-> ProductSchema_errors(json, partial), value |-> make_instance(json)]

\* ------------------------------------------------------------ store

\* db.session.get(Model, id) finds a row
session_get(table, id) == id \in DOMAIN table

\* The columns declared without unique=True.
unique_violation_dropped(table, row, self) == FALSE

\* unique=True on users.name and users.email (BINARY collation: exact,
\* case-sensitive comparison): a row other than `self` holds the name or
\* the email.
unique_violation(table, row, self) ==
    \E j \in DOMAIN table \ {self} :
        table[j].name = row.name \/ table[j].email = row.email

\* INTEGER PRIMARY KEY without AUTOINCREMENT: SQLite gives a new row the
\* largest rowid in the table plus one.
new_rowid(table) ==
    IF DOMAIN table = {} THEN 1
    ELSE (CHOOSE m \in DOMAIN table : \A j \in DOMAIN table : j <= m) + 1

Insert(table, id, row) == [j \in DOMAIN table \cup {id} |-> IF j = id THEN row ELSE table[j]]

\* The delete never committed: the row stays.
Remove_uncommitted(table, id) == table

Remove(table, id) == [j \in DOMAIN table \ {id} |-> table[j]]

\* ------------------------------------------------------------ responses

Response(status, message, errors, rows) ==
    [status |-> status, message |-> message, errors |-> errors, rows |-> rows]

Message(status, text) == Response(status, text, {}, {})

\* An exception no handler catches: Flask answers 500, and the request's
\* session is removed on teardown, which rolls back whatever it held.
ServerError == Response(500, "", {}, {})

Entity(id, row) == [id |-> id, row |-> row]

\* ------------------------------------------------------------ user routes

\* GET /users
get_users_response(table) ==
    Response(200, "", {}, {Entity(j, table[j]) : j \in DOMAIN table})

\* GET /users/<id>
get_user_response(table, id) ==
    IF ~session_get(table, id) THEN Message(404, "User not found")
    ELSE Response(200, "", {}, {Entity(id, table[id])})

\* POST /users: the response and the users table it leaves
create_user_response(table, json) ==
    LET loaded == UserSchema_load(json, FALSE) IN
    IF loaded.errors # {}
    THEN [resp |-> Response(400, "", loaded.errors, {}), table |-> table]
    ELSE IF TypeError(loaded.value)
    THEN [resp |-> ServerError, table |-> table]
    ELSE LET user_data == loaded.value.data
             new_user == [name |-> Item(user_data, "name"),
                          address |-> Item(user_data, "address"),
                          email |-> Item(user_data, "email")]
             id == new_rowid(table)
         IN IF unique_violation(table, new_user, id)
            THEN [resp |-> Message(409, "User with this name or email already exists"),
                  table |-> table]
            ELSE [resp |-> Response(201, "", {}, {Entity(id, new_user)}),
                  table |-> Insert(table, id, new_user)]

\* update_user loading the body before looking the row up.
update_user_response_load_first(table, id, json) ==
    IF UserSchema_load(json, TRUE).errors # {}
    THEN [resp |-> Response(400, "", UserSchema_load(json, TRUE).errors, {}),
          table |-> table]
    ELSE IF ~session_get(table, id)
    THEN [resp |-> Message(404, "Invalid user id"), table |-> table]
    ELSE [resp |-> ServerError, table |-> table]

\* PUT /users/<id>
update_user_response(table, id, json) ==
    IF ~session_get(table, id)
    THEN [resp |-> Message(404, "Invalid user id"), table |-> table]
    ELSE LET loaded == UserSchema_load(json, TRUE) IN
         IF loaded.errors # {}
         THEN [resp |-> Response(400, "", loaded.errors, {}), table |-> table]
         ELSE IF TypeError(loaded.value)
         THEN [resp |-> ServerError, table |-> table]
         ELSE LET user_data == loaded.value.data
                  user == [name |-> IF Present(user_data, "name")
                                    THEN Item(user_data, "name") ELSE table[id].name,
                           address |-> IF Present(user_data, "address")
                                       THEN Item(user_data, "address") ELSE table[id].address,
                           email |-> IF Present(user_data, "email")
                                     THEN Item(user_data, "email") ELSE table[id].email]
              IN \* commit: IntegrityError is not caught here
                 IF unique_violation(table, user, id)
                 THEN [resp |-> ServerError, table |-> table]
                 ELSE [resp |-> Response(200, "", {}, {Entity(id, user)}),
                       table |-> Insert(table, id, user)]

\* DELETE /users/<id> (the message also carries the id)
delete_user_response(table, id) ==
    IF ~session_get(table, id)
    THEN [resp |-> Message(404, "User not found"), table |-> table]
    ELSE [resp |-> Message(200, "Successfully deleted user"), table |-> Remove(table, id)]

\* ------------------------------------------------------------ product routes

\* GET /products
get_products_response(table) ==
    Response(200, "", {}, {Entity(j, table[j]) : j \in DOMAIN table})

\* GET /products/<id>
get_product_response(table, id) ==
    IF ~session_get(table, id) THEN Message(404, "Product not found")
    ELSE Response(200, "", {}, {Entity(id, table[id])})

\* POST /products (products carries no unique constraint: the commit cannot
\* raise IntegrityError)
create_product_response(table, json) ==
    LET loaded == ProductSchema_load(json, FALSE) IN
    IF loaded.errors # {}
    THEN [resp |-> Response(400, "", loaded.errors, {}), table |-> table]
    ELSE IF TypeError(loaded.value)
    THEN [resp |-> ServerError, table |-> table]
    ELSE LET product_data == loaded.value.data
             new_product == [name |-> Item(product_data, "name"),
                             price |-> Item(product_data, "price")]
             id == new_rowid(table)
         IN [resp |-> Response(201, "", {}, {Entity(id, new_product)}),
             table |-> Insert(table, id, new_product)]

\* PUT /products/<id>
update_product_response(table, id, json) ==
    IF ~session_get(table, id)
    THEN [resp |-> Message(404, "Invalid product id"), table |-> table]
    ELSE LET loaded == ProductSchema_load(json, TRUE) IN
         IF loaded.errors # {}
         THEN [resp |-> Response(400, "", loaded.errors, {}), table |-> table]
         ELSE IF TypeError(loaded.value)
         THEN [resp |-> ServerError, table |-> table]
         ELSE LET product_data == loaded.value.data
                  product == [name |-> IF Present(product_data, "name")
                                       THEN Item(product_data, "name") ELSE table[id].name,
                              price |-> IF Present(product_data, "price")
                                        THEN Item(product_data, "price") ELSE table[id].price]
              IN [resp |-> Response(200, "", {}, {Entity(id, product)}),
                  table |-> Insert(table, id, product)]

\* DELETE /products/<id> (the message also carries the id)
delete_product_response(table, id) ==
    IF ~session_get(table, id)
    THEN [resp |-> Message(404, "Product not found"), table |-> table]
    ELSE [resp |-> Message(200, "Successfully deleted product"), table |-> Remove(table, id)]

\* ------------------------------------------------------------ inputs

Ids == 1..MaxId

Opt(S) == {{}} \cup {{v} : v \in S}

NoBody == <<>>

\* Request bodies for the user routes: every combination of absent and
\* valid values, and each rejected value (empty, too long, no "@", no
\* top-level domain, an undeclared key) alone and beside valid values.
ValidUserJsons ==
    [name : Opt({sAnn, sANN}), address : Opt({sY}), email : Opt({eAnn, eANN}),
     role : {{}}]

BlankUserJson == [name |-> {}, address |-> {}, email |-> {}, role |-> {}]

FullUserJson == [name |-> {sANN}, address |-> {sY}, email |-> {eANN}, role |-> {}]

BadUserValues ==
    {<<"name", <<>>>>, <<"name", Rep("a", NameMax + 1)>>,
     <<"address", <<>>>>, <<"address", Rep("x", AddressMax + 1)>>,
     <<"email", eNoAt>>, <<"email", eNoTld>>,
     <<"role", sX>>}

InvalidUserJsons ==
    {[base EXCEPT ![kv[1]] = {kv[2]}] :
        base \in {BlankUserJson, FullUserJson}, kv \in BadUserValues}
    \cup {[name |-> {<<>>}, address |-> {Rep("x", AddressMax + 1)},
           email |-> {eNoAt}, role |-> {}]}

UserJsons == ValidUserJsons \cup InvalidUserJsons

ValidProductJsons == [name : Opt({sQ}), price : Opt({PriceMin, 2000}), role : {{}}]

BlankProductJson == [name |-> {}, price |-> {}, role |-> {}]

FullProductJson == [name |-> {sQ}, price |-> {2000}, role |-> {}]

InvalidProductJsons ==
    {[base EXCEPT !.name = {v}] :
        base \in {BlankProductJson, FullProductJson},
        v \in {<<>>, Rep("p", ProductNameMax + 1)}}
    \cup {[base EXCEPT !.price = {v}] :
        base \in {BlankProductJson, FullProductJson}, v \in {0 - 1000, 0, 5}}
    \cup {[base EXCEPT !.role = {sX}] : base \in {BlankProductJson, FullProductJson}}

ProductJsons == ValidProductJsons \cup InvalidProductJsons

\* Rows the tables of the SQLite file may hold when the application starts
\* (create_all keeps existing tables; drop_all is commented out): rows the
\* schemas accept, under the tables' primary-key and unique constraints.
UserRows ==
    {[name |-> sAnn, address |-> sX, email |-> eAnn],
     [name |-> sANN, address |-> sX, email |-> eANN]}

ProductRows == {[name |-> sP, price |-> 1000]}

Tables(rows) == UNION {[S -> rows] : S \in SUBSET Ids}

PersistedUsers ==
    {t \in Tables(UserRows) : \A i \in DOMAIN t : ~unique_violation(t, t[i], i)}

PersistedProducts == Tables(ProductRows)

\* ------------------------------------------------------------ state machine

Init ==
    /\ users \in PersistedUsers
    /\ products \in PersistedProducts
    /\ issued = {}
    /\ req = [op |-> "none", id |-> 0, json |-> NoBody]
    /\ resp = Response(0, "", {}, {})
    /\ pre = [users |-> users, products |-> products, issued |-> {}]

Request(op, id, json) == [op |-> op, id |-> id, json |-> json]

\* The store as the request found it, kept to state what a request changed.
Snapshot == [users |-> users, products |-> products, issued |-> issued]

get_users ==
    /\ req' = Request("GET /users", 0, NoBody)
    /\ resp' = get_users_response(users)
    /\ pre' = Snapshot
    /\ UNCHANGED <<users, products, issued>>

get_user ==
    \E id \in Ids :
        /\ req' = Request("GET /users/id", id, NoBody)
        /\ resp' = get_user_response(users, id)
        /\ pre' = Snapshot
        /\ UNCHANGED <<users, products, issued>>

create_user ==
    \E json \in UserJsons :
        LET r == create_user_response(users, json) IN
        /\ req' = Request("POST /users", 0, json)
        /\ resp' = r.resp
        /\ pre' = Snapshot
        /\ users' = r.table
        /\ issued' = IF r.resp.status = 201
                     THEN issued \cup {e.id : e \in r.resp.rows} ELSE issued
        /\ UNCHANGED products

update_user ==
    \E id \in Ids, json \in UserJsons :
        LET r == update_user_response(users, id, json) IN
        /\ req' = Request("PUT /users/id", id, json)
        /\ resp' = r.resp
        /\ pre' = Snapshot
        /\ users' = r.table
        /\ UNCHANGED <<products, issued>>

delete_user ==
    \E id \in Ids :
        LET r == delete_user_response(users, id) IN
        /\ req' = Request("DELETE /users/id", id, NoBody)
        /\ resp' = r.resp
        /\ pre' = Snapshot
        /\ users' = r.table
        /\ UNCHANGED <<products, issued>>

get_products ==
    /\ req' = Request("GET /products", 0, NoBody)
    /\ resp' = get_products_response(products)
    /\ pre' = Snapshot
    /\ UNCHANGED <<users, products, issued>>

get_product ==
    \E id \in Ids :
        /\ req' = Request("GET /products/id", id, NoBody)
        /\ resp' = get_product_response(products, id)
        /\ pre' = Snapshot
        /\ UNCHANGED <<users, products, issued>>

create_product ==
    \E json \in ProductJsons :
        LET r == create_product_response(products, json) IN
        /\ req' = Request("POST /products", 0, json)
        /\ resp' = r.resp
        /\ pre' = Snapshot
        /\ products' = r.table
        /\ UNCHANGED <<users, issued>>

update_product ==
    \E id \in Ids, json \in ProductJsons :
        LET r == update_product_response(products, id, json) IN
        /\ req' = Request("PUT /products/id", id, json)
        /\ resp' = r.resp
        /\ pre' = Snapshot
        /\ products' = r.table
        /\ UNCHANGED <<users, issued>>

delete_product ==
    \E id \in Ids :
        LET r == delete_product_response(products, id) IN
        /\ req' = Request("DELETE /products/id", id, NoBody)
        /\ resp' = r.resp
        /\ pre' = Snapshot
        /\ products' = r.table
        /\ UNCHANGED <<users, issued>>

Next ==
    \/ get_users
    \/ get_user
    \/ create_user
    \/ update_user
    \/ delete_user
    \/ get_products
    \/ get_product
    \/ create_product
    \/ update_product
    \/ delete_product

Spec == Init /\ [][Next]_vars

\* ------------------------------------------------------------ claims

UserOps == {"GET /users/id", "PUT /users/id", "DELETE /users/id"}

ProductOps == {"GET /products/id", "PUT /products/id", "DELETE /products/id"}

StoreUnchanged == users = pre.users /\ products = pre.products

\* The payload's name or email is held by a stored user other than `self`.
Collides(table, json, self) ==
    \E j \in DOMAIN table \ {self} :
        \/ json.name # {} /\ table[j].name = Item(json, "name")
        \/ json.email # {} /\ table[j].email = Item(json, "email")

ValidUserPost == req.op = "POST /users" /\ UserSchema_errors(req.json, FALSE) = {}

ValidUserPut ==
    /\ req.op = "PUT /users/id"
    /\ req.id \in DOMAIN pre.users
    /\ UserSchema_errors(req.json, TRUE) = {}

\* C1: no two distinct stored users share a name or an email, and a POST or
\* PUT on users whose write would break that fails and leaves the stored
\* users as they were before the request.
C1_UniqueUsers ==
    /\ \A i, j \in DOMAIN users :
          i # j => users[i].name # users[j].name /\ users[i].email # users[j].email
    /\ ValidUserPost /\ Collides(pre.users, req.json, 0)
          => resp.status \notin {200, 201} /\ users = pre.users
    /\ ValidUserPut /\ Collides(pre.users, req.json, req.id)
          => resp.status \notin {200, 201} /\ users = pre.users

\* A PUT that would give one stored user the name of another has been
\* answered, with two users stored.
C1_Witness ==
    /\ ValidUserPut
    /\ Collides(pre.users, req.json, req.id)
    /\ Cardinality(DOMAIN users) = 2
    /\ resp.status = 500

\* C2: POST /users with a valid payload whose name or email equals that of
\* a stored user returns 409 and leaves the stored users unchanged.
C2_DuplicateIs409 ==
    ValidUserPost /\ Collides(pre.users, req.json, 0)
        => resp.status = 409 /\ users = pre.users

\* C3: POST /users with a valid payload that collides with no stored user
\* returns 201 with a positive id that no earlier POST /users returned.
C3_FreshId ==
    ValidUserPost /\ ~Collides(pre.users, req.json, 0)
        => /\ resp.status = 201
           /\ resp.rows # {}
           /\ \A e \in resp.rows : e.id > 0 /\ e.id \notin pre.issued

C5_NotFound ==
    /\ ( \/ req.op \in UserOps /\ req.id \notin DOMAIN pre.users
         \/ req.op \in ProductOps /\ req.id \notin DOMAIN pre.products )
          => /\ resp.status = 404
             /\ resp.message # ""
             /\ resp.errors = {}
             /\ resp.rows = {}
             /\ StoreUnchanged
    /\ req.op = "GET /users/id" /\ req.id \notin DOMAIN pre.users
          => resp.message = "User not found"

\* A PUT with a rejected body on an absent user id has been answered.
C5_Witness ==
    /\ req.op = "PUT /users/id"
    /\ req.id \notin DOMAIN pre.users
    /\ UserSchema_errors(req.json, TRUE) # {}
    /\ resp.status = 404
    /\ pre.users # <<>>

\* The fields of a body that break the schema rules the claim lists: a
\* required key missing on POST, a string outside its length bounds, an
\* email without "@", a price under the minimum.
LacksAt(value) == \A i \in 1..Len(value) : value[i] # "@"

OutOfBounds(value, max) == Len(value) < 1 \/ Len(value) > max

FailingUserFields(json, post) ==
    {k \in {"name", "address", "email"} : post /\ json[k] = {}}
    \cup {k \in {"name"} : json[k] # {} /\ OutOfBounds(Item(json, k), 80)}
    \cup {k \in {"address"} : json[k] # {} /\ OutOfBounds(Item(json, k), 255)}
    \cup {k \in {"email"} : json[k] # {} /\ LacksAt(Item(json, k))}

FailingProductFields(json, post) ==
    {k \in {"name", "price"} : post /\ json[k] = {}}
    \cup {k \in {"name"} : json[k] # {} /\ OutOfBounds(Item(json, k), 120)}
    \cup {k \in {"price"} : json[k] # {} /\ Item(json, k) < 10}

Failing ==
    CASE req.op = "POST /users" -> FailingUserFields(req.json, TRUE)
      [] req.op = "PUT /users/id" -> FailingUserFields(req.json, FALSE)
      [] req.op = "POST /products" -> FailingProductFields(req.json, TRUE)
      [] req.op = "PUT /products/id" -> FailingProductFields(req.json, FALSE)
      [] OTHER -> {}

Is400 ==
    /\ resp.status = 400
    /\ Failing \subseteq resp.errors
    /\ StoreUnchanged

C7_PriceFloor ==
    /\ \A j \in DOMAIN products : products[j].price >= 10
    /\ ( /\ req.op = "POST /products"
         /\ req.json.price = {0} )
          => resp.status = 400 /\ products = pre.products
    /\ ( /\ req.op = "POST /products"
         /\ ProductSchema_errors(req.json, FALSE) = {}
         /\ req.json.price = {10} )
          => /\ resp.status = 201
             /\ \E j \in DOMAIN products \ DOMAIN pre.products :
                   products[j].price = 10

\* C8: PUT /users/<id> answers 404 for an absent id, else 400 for a payload
\* failing validation, else 200 with the updated user stored; whenever the
\* answer is not 200 the stored users are as before.
C8_PutOutcomes ==
    req.op = "PUT /users/id" =>
        /\ resp.status =
              IF req.id \notin DOMAIN pre.users THEN 404
              ELSE IF UserSchema_errors(req.json, TRUE) # {} THEN 400
              ELSE 200
        /\ resp.status = 200 => resp.rows = {Entity(req.id, users[req.id])}
        /\ resp.status # 200 => users = pre.users

\* C9: after a DELETE by id that returned 200, the next request, if a GET of
\* that id, returns 404, and if a GET of another id stored before the
\* DELETE, returns that entity as it was.
C9_DeleteThenGet ==
    [][ /\ ( /\ req.op = "DELETE /users/id"
             /\ resp.status = 200
             /\ req'.op = "GET /users/id" )
           => IF req'.id = req.id THEN resp'.status = 404
              ELSE req'.id \in DOMAIN pre.users
                     => /\ resp'.status = 200
                        /\ resp'.rows = {Entity(req'.id, pre.users[req'.id])}
        /\ ( /\ req.op = "DELETE /products/id"
             /\ resp.status = 200
             /\ req'.op = "GET /products/id" )
           => IF req'.id = req.id THEN resp'.status = 404
              ELSE req'.id \in DOMAIN pre.products
                     => /\ resp'.status = 200
                        /\ resp'.rows = {Entity(req'.id, pre.products[req'.id])}
      ]_vars

\* A DELETE /users/<id> has returned 200, the row is gone and another user
\* is still stored.
C9_Witness ==
    /\ req.op = "DELETE /users/id"
    /\ resp.status = 200
    /\ req.id \in DOMAIN pre.users
    /\ req.id \notin DOMAIN users
    /\ users # <<>>

====
